---- MODULE Spec2Model ----
(***************************************************************************)
(* Model of pero-mcp-server:                                               *)
(*   - the malformed-report recovery parser, biz/apple/apple_csv_handler.py *)
(*     (split_broken_csv, read_csv_into_parts): Spec;                       *)
(*   - split_file_by_keyword and remove_total_rows_line of                  *)
(*     clients/appstoreconnect/handlers/analytics_handler.py: SpecKeyword   *)
(*     and SpecClean;                                                       *)
(*   - the PostgreSQL client and its tools, clients/postgresql: SpecPg;     *)
(*   - biz/pandas/to_postgresql.py: SpecLoad.                               *)
(* Each specification moves one component and leaves the others as they    *)
(* are constructed.                                                        *)
(*                                                                         *)
(* Text is modelled character by character: a line is a sequence of        *)
(* one-character strings.  The characters used are letters, digits, '_',   *)
(* ' ', '\t', '.', ':'; no quote, comment or line-break character occurs   *)
(* inside a line, so the table parser's quoting rules are never entered.   *)
(***************************************************************************)
EXTENDS Integers, Sequences, FiniteSets, TLC

(* ------------------------------------------------------------------ text *)

TAB == "\t"

\* the characters str.strip() removes, as far as they occur in the model
Whitespace == {" ", TAB}

\* the literal 'Total_Rows' of line.startswith('Total_Rows')
Label == <<"T", "o", "t", "a", "l", "_", "R", "o", "w", "s">>

Max(a, b) == IF a >= b THEN a ELSE b

RECURSIVE LStrip(_)
LStrip(s) ==
    IF s # <<>> /\ Head(s) \in Whitespace THEN LStrip(Tail(s)) ELSE s

RECURSIVE RStrip(_)
RStrip(s) ==
    IF s # <<>> /\ s[Len(s)] \in Whitespace
    THEN RStrip(SubSeq(s, 1, Len(s) - 1))
    ELSE s

\* str.strip()
Strip(s) == RStrip(LStrip(s))

\* str.startswith(prefix)
StartsWith(s, prefix) ==
    /\ Len(s) >= Len(prefix)
    /\ SubSeq(s, 1, Len(prefix)) = prefix

\* str.split('\t'): always at least one field, empty fields kept
RECURSIVE Split(_)
Split(s) ==
    IF \E i \in 1..Len(s) : s[i] = TAB
    THEN LET i == CHOOSE k \in 1..Len(s) :
                     s[k] = TAB /\ \A j \in 1..(k - 1) : s[j] # TAB
         IN  <<SubSeq(s, 1, i - 1)>> \o Split(SubSeq(s, i + 1, Len(s)))
    ELSE <<s>>

\* '\t'.join(fields)
RECURSIVE JoinTab(_)
JoinTab(fields) ==
    IF fields = <<>> THEN <<>>
    ELSE IF Len(fields) = 1 THEN fields[1]
    ELSE fields[1] \o <<TAB>> \o JoinTab(Tail(fields))

Digits == <<"0", "1", "2", "3", "4", "5", "6", "7", "8", "9">>

IsDigit(c) == \E d \in 1..10 : Digits[d] = c

DigitValue(c) == (CHOOSE d \in 1..10 : Digits[d] = c) - 1

\* str(n) for a non-negative integer
RECURSIVE DecStr(_)
DecStr(n) ==
    IF n < 10 THEN <<Digits[n + 1]>>
    ELSE DecStr(n \div 10) \o <<Digits[(n % 10) + 1]>>

\* int(s) for a string of decimal digits (leading zeros are dropped)
RECURSIVE ParseInt(_)
ParseInt(s) ==
    IF s = <<>> THEN 0
    ELSE 10 * ParseInt(SubSeq(s, 1, Len(s) - 1)) + DigitValue(s[Len(s)])

\* [line.strip() for line in f if line.strip()]
RECURSIVE StrippedLines(_)
StrippedLines(raw) ==
    IF raw = <<>> THEN <<>>
    ELSE IF Strip(Head(raw)) # <<>>
         THEN <<Strip(Head(raw))>> \o StrippedLines(Tail(raw))
         ELSE StrippedLines(Tail(raw))

\* Python's 0-based lines[i] and lines[a:b] (b is clipped to len(lines))
At(lines, i) == lines[i + 1]

\* the 0-based indices a slice [a:b] of a list of n elements selects
SliceIndices(n, a, b) ==
    LET stop == IF b > n THEN n ELSE b
    IN  [k \in 1..(IF stop > a THEN stop - a ELSE 0) |-> a + k - 1]

Pick(lines, idx) == [k \in 1..Len(idx) |-> At(lines, idx[k])]

Slice(lines, a, b) == Pick(lines, SliceIndices(Len(lines), a, b))

\* the value None of total_row_index
None == -1

\* the loop's test: line.startswith('Total_Rows')
IsSentinelLine(line) == StartsWith(line, Label)

\* variant: the loop has no break, the last line that starts with the label wins
FindLastTotalRowIndex(lines) ==
    IF \E i \in 0..(Len(lines) - 1) : IsSentinelLine(At(lines, i))
    THEN CHOOSE i \in 0..(Len(lines) - 1) :
             /\ IsSentinelLine(At(lines, i))
             /\ \A j \in (i + 1)..(Len(lines) - 1) : ~IsSentinelLine(At(lines, j))
    ELSE None

\* "for i, line in enumerate(lines): if ...: total_row_index = i; break":
\* the 0-based index of the first line the test accepts, or None
FindTotalRowIndex(lines) ==
    IF \E i \in 0..(Len(lines) - 1) : IsSentinelLine(At(lines, i))
    THEN CHOOSE i \in 0..(Len(lines) - 1) :
             /\ IsSentinelLine(At(lines, i))
             /\ \A j \in 0..(i - 1) : ~IsSentinelLine(At(lines, j))
    ELSE None

(* ------------------------------------------------- pandas.read_csv(sep='\t') *)
(* The table parser is the pandas library.  What is modelled of it: the     *)
(* header row names the columns (an empty name becomes "Unnamed: i", a      *)
(* repeated name gets ".k" appended); a first data row with more fields     *)
(* than the header turns the leading surplus columns into the index; a      *)
(* shorter row is padded with missing values; a later row with more fields  *)
(* than the table is wide raises ParserError; an empty field (or "NA") is   *)
(* the missing value NaN; a column of digit strings is converted to         *)
(* integers (to floats when it also holds NaN); any other column keeps its  *)
(* strings.                                                                 *)

NaN == [t |-> "nan", n |-> 0, s |-> <<>>]

IntV(k) == [t |-> "int64", n |-> k, s |-> <<>>]

FloatV(k) == [t |-> "float64", n |-> k, s |-> <<>>]

StrV(f) == [t |-> "str", n |-> 0, s |-> f]

\* pd.DataFrame(): no columns, no rows
EmptyDataFrame == [columns |-> <<>>, index |-> <<>>, data |-> <<>>]

\* len(df)
DfLen(df) == Len(df.data)

\* pandas' default na_values, as far as they can be written in the model
IsNa(f) == f = <<>> \/ f = <<"N", "A">>

IsDigitString(f) == f # <<>> /\ \A i \in 1..Len(f) : IsDigit(f[i])

\* the dtype pandas infers for a column from its fields
ColumnKind(fields) ==
    IF \A i \in 1..Len(fields) : IsNa(fields[i]) \/ IsDigitString(fields[i])
    THEN IF \E i \in 1..Len(fields) : IsNa(fields[i]) THEN "float64" ELSE "int64"
    ELSE "object"

Convert(f, kind) ==
    IF IsNa(f) THEN NaN
    ELSE IF kind = "int64" THEN IntV(ParseInt(f))
    ELSE IF kind = "float64" THEN FloatV(ParseInt(f))
    ELSE StrV(f)

Unnamed == <<"U", "n", "n", "a", "m", "e", "d", ":", " ">>

\* the column names pandas derives from the header fields
ColumnNames(hf) ==
    LET raw == [i \in 1..Len(hf) |->
                  IF hf[i] = <<>> THEN Unnamed \o DecStr(i - 1) ELSE hf[i]]
        seen(i) == Cardinality({j \in 1..(i - 1) : raw[j] = raw[i]})
    IN  [i \in 1..Len(hf) |->
            IF seen(i) = 0 THEN raw[i] ELSE raw[i] \o <<".">> \o DecStr(seen(i))]

PadRow(r, w) == r \o [i \in 1..(w - Len(r)) |-> <<>>]

\* pd.read_csv(StringIO(header + '\n' + '\n'.join(data)), sep='\t')
ReadCsv(header, data) ==
    LET hf     == Split(header)
        n      == Len(hf)
        rows   == [i \in 1..Len(data) |-> Split(data[i])]
        width  == IF data = <<>> THEN n ELSE Max(n, Len(rows[1]))
        lead   == width - n
        padded == [i \in 1..Len(data) |-> PadRow(rows[i], width)]
        kind   == [j \in 1..width |->
                     ColumnKind([i \in 1..Len(data) |-> padded[i][j]])]
        cells  == [i \in 1..Len(data) |->
                     [j \in 1..width |-> Convert(padded[i][j], kind[j])]]
    IN  IF \E k \in 2..Len(data) : Len(rows[k]) > width
        THEN [ok |-> FALSE, exc |-> "ParserError", df |-> EmptyDataFrame]
        ELSE [ok |-> TRUE, exc |-> "",
              df |-> [columns |-> ColumnNames(hf),
                      index   |-> [i \in 1..Len(data) |-> SubSeq(cells[i], 1, lead)],
                      data    |-> [i \in 1..Len(data) |->
                                      SubSeq(cells[i], lead + 1, width)]]]

(* ----------------------------------------------------------- outcomes *)

\* a call returned the tuple (df_part1, total_rows, df_part2); src1 and src2
\* record the 0-based indices of the lines each table was parsed from
Return(part1, total, part2) ==
    [kind |-> "return", exc |-> "", msg |-> "", cause |-> "",
     df_part1 |-> part1.df, total_rows |-> total, df_part2 |-> part2.df,
     src1 |-> part1.src, src2 |-> part2.src]

\* a call raised exception type exc with message msg; cause is the exception
\* an "except Exception as e" block caught and logged before raising ("" if none)
Raise(exc, msg, cause) ==
    [kind |-> "raise", exc |-> exc, msg |-> msg, cause |-> cause,
     df_part1 |-> EmptyDataFrame, total_rows |-> <<>>, df_part2 |-> EmptyDataFrame,
     src1 |-> <<>>, src2 |-> <<>>]

\* the messages of the exceptions, by the line that builds them
MsgFileMissing == "file does not exist: {file_path}"

MsgBadFormat == "unsupported file format: {ext}, only .csv and .txt"

MsgCannotSplit == "cannot read and split CSV file {file_path}, check the format"

MsgNoTotalRows == "'Total_Rows' line not found"

MsgIndex == "list index out of range"

MsgParser == "Error tokenizing data"

\* ext.lower() on the extensions of the model
Lower(ext) ==
    CASE ext = ".CSV" -> ".csv"
      [] ext = ".TXT" -> ".txt"
      [] OTHER -> ext

(* ------------------------------------------------------ the two tables *)

\* "df_part1 = pd.DataFrame()" and "df_part2 = pd.DataFrame()": parsed from no line
NoPart == [ok |-> TRUE, exc |-> "", df |-> EmptyDataFrame, src |-> <<>>]

\* variant: the slice of the first table runs one line too far
FirstPartOneTooFar(lines, stop) ==
    LET data_idx == SliceIndices(Len(lines), 1, stop + 1)
        parsed   == ReadCsv(At(lines, 0), Pick(lines, data_idx))
    IN  [ok |-> parsed.ok, exc |-> parsed.exc, df |-> parsed.df,
         src |-> <<0>> \o data_idx]

\* variant: the data of the second table starts one line too late
SecondPartSkipsLine(lines, h) ==
    LET data_idx == SliceIndices(Len(lines), h + 2, Len(lines))
        parsed   == ReadCsv(At(lines, h), Pick(lines, data_idx))
    IN  [ok |-> parsed.ok, exc |-> parsed.exc, df |-> parsed.df,
         src |-> <<h>> \o data_idx]

\* part1_header = lines[0]; part1_data = lines[1:stop];
\* df_part1 = pd.read_csv(StringIO(part1_header + '\n' + '\n'.join(part1_data)), sep='\t')
FirstPart(lines, stop) ==
    LET data_idx == SliceIndices(Len(lines), 1, stop)
        parsed   == ReadCsv(At(lines, 0), Pick(lines, data_idx))
    IN  [ok |-> parsed.ok, exc |-> parsed.exc, df |-> parsed.df,
         src |-> <<0>> \o data_idx]

\* part2_header = lines[h]; part2_data = lines[h + 1:]; df_part2 = pd.read_csv(...)
SecondPart(lines, h) ==
    LET data_idx == SliceIndices(Len(lines), h + 1, Len(lines))
        parsed   == ReadCsv(At(lines, h), Pick(lines, data_idx))
    IN  [ok |-> parsed.ok, exc |-> parsed.exc, df |-> parsed.df,
         src |-> <<h>> \o data_idx]

\* total_rows = lines[total_row_index].split('\t')[1]
SentinelFields(lines, total_row_index) == Split(At(lines, total_row_index))

(* ------------------------------------------------------ split_broken_csv *)

\* split_broken_csv(file_path): path.exists says whether open() finds the file,
\* raw is the file's lines
split_broken_csv(path, raw) ==
    IF ~path.exists THEN Raise("FileNotFoundError", MsgFileMissing, "")
    ELSE
    LET lines           == StrippedLines(raw)
        total_row_index == FindTotalRowIndex(lines)
    IN  IF total_row_index = None THEN Raise("ValueError", MsgNoTotalRows, "")
        ELSE
        LET part1  == FirstPart(lines, total_row_index)
            fields == SentinelFields(lines, total_row_index)
        IN  IF ~part1.ok THEN Raise(part1.exc, MsgParser, "")
            ELSE IF Len(fields) < 2 THEN Raise("IndexError", MsgIndex, "")
            \* part2_header = lines[total_row_index + 1], unguarded
            ELSE IF total_row_index + 1 >= Len(lines)
                 THEN Raise("IndexError", MsgIndex, "")
            ELSE
            LET part2 == SecondPart(lines, total_row_index + 1)
            IN  IF ~part2.ok THEN Raise(part2.exc, MsgParser, "")
                ELSE Return(part1, fields[2], part2)

(* --------------------------------------------------- read_csv_into_parts *)

\* variant: the midpoint rounded up instead of down
MidPointRoundedUp(lines) == (Len(lines) + 1) \div 2

\* mid_point = len(lines) // 2
MidPoint(lines) == Len(lines) \div 2

\* variant: the header line counted as a row
FallbackTotalRowsWithHeader(df_part1) == DecStr(DfLen(df_part1) + 1)

\* total_rows = str(len(df_part1))
FallbackTotalRows(df_part1) == DecStr(DfLen(df_part1))

\* variant: a missing Total_Rows line raises, as in split_broken_csv
FallbackRaises(lines) == Raise("ValueError", MsgNoTotalRows, "")

\* the branch "if total_row_index is None": the positional split
Fallback(lines) ==
    LET mid_point == MidPoint(lines)
    IN  IF mid_point > 0
        THEN LET part1 == FirstPart(lines, mid_point)
             IN  IF ~part1.ok THEN Raise(part1.exc, MsgParser, "")
                 ELSE
                 LET total_rows == FallbackTotalRows(part1.df)
                 IN  IF mid_point < Len(lines)
                     THEN LET part2 == SecondPart(lines, mid_point)
                          IN  IF ~part2.ok THEN Raise(part2.exc, MsgParser, "")
                              ELSE Return(part1, total_rows, part2)
                     ELSE Return(part1, total_rows, NoPart)
        ELSE Return(NoPart, <<"0">>, NoPart)

\* the else branch: a Total_Rows line was found at total_row_index
WithSentinel(lines, total_row_index) ==
    LET part1  == FirstPart(lines, total_row_index)
        fields == SentinelFields(lines, total_row_index)
    IN  IF ~part1.ok THEN Raise(part1.exc, MsgParser, "")
        ELSE IF Len(fields) < 2 THEN Raise("IndexError", MsgIndex, "")
        ELSE IF total_row_index + 1 < Len(lines)
             THEN LET part2 == SecondPart(lines, total_row_index + 1)
                  IN  IF ~part2.ok THEN Raise(part2.exc, MsgParser, "")
                      ELSE Return(part1, fields[2], part2)
        ELSE Return(part1, fields[2], NoPart)

\* the body of the try block: the outcome before the except clause sees it
ReadCsvIntoPartsBody(raw) ==
    LET lines           == StrippedLines(raw)
        total_row_index == FindTotalRowIndex(lines)
    IN  IF total_row_index = None
        THEN Fallback(lines)
        ELSE WithSentinel(lines, total_row_index)

\* "except Exception as e: logging.error(...); raise ValueError(...)"
ExceptClause(outcome) ==
    IF outcome.kind = "raise"
    THEN Raise("ValueError", MsgCannotSplit, outcome.exc)
    ELSE outcome

\* read_csv_into_parts(file_path): path.exists is os.path.exists(file_path),
\* path.ext is os.path.splitext(file_path)[1], raw is the file's lines
read_csv_into_parts(path, raw) ==
    IF ~path.exists THEN Raise("FileNotFoundError", MsgFileMissing, "")
    ELSE IF Lower(path.ext) \notin {".csv", ".txt"}
         THEN Raise("ValueError", MsgBadFormat, "")
    ELSE ExceptClause(ReadCsvIntoPartsBody(raw))

(* ------------------------------------------------- split_file_by_keyword *)

\* a path of the file system: no file there, or a file and its characters
NoFile == [exists |-> FALSE, data |-> <<>>]

FileOf(data) == [exists |-> TRUE, data |-> data]

\* f.read() of a file opened in text mode: \r\n and \r are read as \n
RECURSIVE ReadText(_)
ReadText(data) ==
    IF data = <<>> THEN <<>>
    ELSE IF Head(data) = "\r"
         THEN <<"\n">> \o ReadText(IF Len(data) >= 2 /\ data[2] = "\n"
                                   THEN SubSeq(data, 3, Len(data))
                                   ELSE Tail(data))
    ELSE <<Head(data)>> \o ReadText(Tail(data))

\* content[i:i+len(keyword)] == keyword, i counted from 1
OccursAt(content, keyword, i) ==
    /\ i + Len(keyword) - 1 <= Len(content)
    /\ SubSeq(content, i, i + Len(keyword) - 1) = keyword

\* keyword in content
In(keyword, content) ==
    \E i \in 1..(Len(content) + 1) : OccursAt(content, keyword, i)

\* variant: the last occurrence (rsplit)
LastOccurrence(content, keyword) ==
    CHOOSE i \in 1..(Len(content) + 1) :
        /\ OccursAt(content, keyword, i)
        /\ \A j \in (i + 1)..(Len(content) + 1) : ~OccursAt(content, keyword, j)

\* where split(keyword, 1) cuts: the leftmost occurrence
FirstOccurrence(content, keyword) ==
    CHOOSE i \in 1..(Len(content) + 1) :
        /\ OccursAt(content, keyword, i)
        /\ \A j \in 1..(i - 1) : ~OccursAt(content, keyword, j)

\* content.split(keyword, 1), keyword not empty
SplitOnce(content, keyword) ==
    IF ~In(keyword, content) THEN <<content>>
    ELSE LET i == FirstOccurrence(content, keyword)
         IN  << SubSeq(content, 1, i - 1),
                SubSeq(content, i + Len(keyword), Len(content)) >>

\* the tuples returned
NoneNone == <<"None", "None">>

AbsPaths == <<"abspath(output1_path)", "abspath(output2_path)">>

\* variant: the outputs are opened for writing before the keyword is looked for
NotFoundTruncating(f) ==
    [f EXCEPT !.out1 = FileOf(<<>>), !.out2 = FileOf(<<>>), !.ret = NoneNone]

\* return None, None: nothing was written
NotFound(f) == [f EXCEPT !.ret = NoneNone]

\* f: the files at input_path, output1_path and output2_path (three paths),
\* the result is f after the call, with the returned tuple in ret
split_file_by_keyword(f, keyword) ==
    IF ~f.input.exists THEN [f EXCEPT !.ret = NoneNone]
    ELSE LET content == ReadText(f.input.data)
         IN  IF ~In(keyword, content) THEN NotFound(f)
             ELSE IF keyword = <<>> THEN [f EXCEPT !.ret = NoneNone]
             ELSE LET parts == SplitOnce(content, keyword)
                  IN  [f EXCEPT !.out1 = FileOf(parts[1]),
                                !.out2 = FileOf(parts[2]),
                                !.ret  = AbsPaths]

\* the most characters the input file holds
MaxContent == 4

\* the characters the input file is written from
ContentChars == {"a", "b", "\r"}

\* the keywords: empty, one character, overlapping with itself, two characters,
\* a line end
Keywords == {<<>>, <<"a">>, <<"a", "a">>, <<"a", "b">>, <<"\n">>}

\* what an output file holds when it is there before the call
OldOutput == <<"o", "l", "d">>

\* no file yet, no call made
KwStart ==
    [pc |-> "writing", input |-> NoFile, out1 |-> NoFile, out2 |-> NoFile,
     before |-> <<NoFile, NoFile>>, keyword |-> <<>>, ret |-> <<"", "">>]

(* ------------------------------------------------------------ the inputs *)

\* the most raw lines a file holds
MaxLines == 5

\* the label in lower case
LowerLabel == <<"t", "o", "t", "a", "l", "_", "r", "o", "w", "s">>

\* the raw lines a file is written from
LinePool ==
    { LowerLabel \o <<TAB, "H", "2">>,       \* two fields, the first total_rows
      <<TAB, "0", "7", " ">>,                \* an empty first value, then 07
      <<"a", TAB, "2", TAB, "c">>,           \* three fields
      Label \o <<TAB, "2">>,                 \* the sentinel line
      Label \o <<TAB>>,                      \* the label and nothing after the tab
      Label \o <<"X", TAB, TAB, "5">>,       \* first field Total_RowsX, second empty
      <<" ">> }                              \* a blank line

\* the file_path arguments: does the file exist, and its extension
Paths ==
    { [exists |-> TRUE,  ext |-> ".TXT"],
      [exists |-> TRUE,  ext |-> ".dat"],
      [exists |-> FALSE, ext |-> ".csv"] }

(* ------------------------------------------------ remove_total_rows_line *)

NL == "\n"

\* the characters \s matches and strip() removes, as far as the model has them
ReSpace == {" ", TAB, NL}

\* re.IGNORECASE, for the letters of the model
FoldCase(c) ==
    CASE c = "T" -> "t"
      [] c = "R" -> "r"
      [] OTHER -> c

\* the index after the longest run of characters of set that starts at index i
RECURSIVE RunEnd(_, _, _)
RunEnd(s, i, set) ==
    IF i <= Len(s) /\ s[i] \in set THEN RunEnd(s, i + 1, set) ELSE i

\* Total_Rows in any letter case at index i
LabelAt(s, i) ==
    /\ i + Len(Label) - 1 <= Len(s)
    /\ [k \in 1..Len(Label) |-> FoldCase(s[i + k - 1])] = LowerLabel

\* $ with re.MULTILINE: at the end, or before a line feed
AtLineEnd(s, q) == q = Len(s) + 1 \/ s[q] = NL

\* ^ with re.MULTILINE: at the start, or after a line feed
AtLineStart(s, p) == p = 1 \/ s[p - 1] = NL

\* the pattern ^\s*Total_Rows\s+\d+\s*$ tried at index p: the index after the
\* match, 0 when there is none. \s* and \s+ take the whole run of white space,
\* line feeds included, since a letter or a digit has to follow; the last \s*
\* is greedy and gives back until $ holds.
MatchEnd(s, p) ==
    LET a == RunEnd(s, p, ReSpace)
        b == a + Len(Label)
        c == RunEnd(s, b, ReSpace)
        d == RunEnd(s, c, {Digits[k] : k \in 1..Len(Digits)})
        e == RunEnd(s, d, ReSpace)
        ends == {q \in d..e : AtLineEnd(s, q)}
    IN  IF /\ AtLineStart(s, p)
           /\ LabelAt(s, a)
           /\ c > b
           /\ d > c
           /\ ends # {}
        THEN CHOOSE q \in ends : \A r \in ends : r <= q
        ELSE 0

\* pattern.sub('', content) from index p on: the leftmost matches, one after
\* the other, are left out
RECURSIVE SubFrom(_, _)
SubFrom(s, p) ==
    IF p > Len(s) THEN <<>>
    ELSE IF MatchEnd(s, p) # 0 THEN SubFrom(s, MatchEnd(s, p))
    ELSE <<s[p]>> \o SubFrom(s, p + 1)

\* re.sub(r'\n+', '\n', s)
RECURSIVE CollapseLineFeeds(_)
CollapseLineFeeds(s) ==
    IF Len(s) >= 2 /\ s[1] = NL /\ s[2] = NL THEN CollapseLineFeeds(Tail(s))
    ELSE IF s = <<>> THEN <<>>
    ELSE <<Head(s)>> \o CollapseLineFeeds(Tail(s))

\* str.strip() of a text with line feeds
StripText(s) ==
    LET from == RunEnd(s, 1, ReSpace)
        to   == CHOOSE j \in 0..Len(s) :
                    /\ \A k \in (j + 1)..Len(s) : s[k] \in ReSpace
                    /\ j = 0 \/ s[j] \notin ReSpace
    IN  SubSeq(s, from, to)

remove_total_rows_line(content) ==
    StripText(CollapseLineFeeds(SubFrom(content, 1)))

\* the most pieces a content is made of
MaxPieces == 4

\* the pieces a content is made of
Pieces == {Label, LowerLabel, <<" ">>, <<NL>>, <<"1">>, <<"x">>}

\* no content yet, no call made
ClStart == [pc |-> "writing", content |-> <<>>, pieces |-> 0, cleaned |-> <<>>]

(* ------------------------------------------------- PostgreSQLMCPHandler *)

\* str.split(sep) for a separator of one character
RECURSIVE SplitOn(_, _)
SplitOn(s, sep) ==
    IF \E i \in 1..Len(s) : s[i] = sep
    THEN LET i == CHOOSE k \in 1..Len(s) :
                     s[k] = sep /\ \A j \in 1..(k - 1) : s[j] # sep
         IN  <<SubSeq(s, 1, i - 1)>> \o SplitOn(SubSeq(s, i + 1, Len(s)), sep)
    ELSE <<s>>

DbnameKey == <<"d", "b", "n", "a", "m", "e", "=">>

UserKey == <<"u", "s", "e", "r", "=">>

\* the characters \w matches, as far as the model has them
WordChars ==
    {"a", "b", "c", "d", "e", "m", "n", "r", "s", "u", "_"}
        \cup {Digits[k] : k \in 1..Len(Digits)}

\* re.sub(r'dbname=\w+', f'dbname={dbname}', dsn) from index p on
RECURSIVE ReSubDbname(_, _, _)
ReSubDbname(dsn, dbname, p) ==
    IF p > Len(dsn) THEN <<>>
    ELSE LET v == p + Len(DbnameKey)
             e == RunEnd(dsn, v, WordChars)
         IN  IF OccursAt(dsn, DbnameKey, p) /\ e > v
             THEN DbnameKey \o dbname \o ReSubDbname(dsn, dbname, e)
             ELSE <<dsn[p]>> \o ReSubDbname(dsn, dbname, p + 1)

\* the value of the last key=value word of a connection string with that key,
\* <<>> when no word has the key
ValueOf(dsn, key) ==
    LET words == SelectSeq(SplitOn(dsn, " "), LAMBDA w : StartsWith(w, key))
    IN  IF words = <<>> THEN <<>>
        ELSE SubSeq(words[Len(words)], Len(key) + 1, Len(words[Len(words)]))

\* the database libpq connects to: dbname, by default the user name
DbOf(dsn) ==
    IF ValueOf(dsn, DbnameKey) # <<>> THEN ValueOf(dsn, DbnameKey)
    ELSE ValueOf(dsn, UserKey)

\* the databases of the server
ServerDbs == { <<"a">>, <<"b">>, <<"u">>, <<"a", "-", "b">>, <<"b", "-", "b">> }

\* a statement the server runs and answers with rows, one it rejects, and one
\* it runs without a result set
ValidSql == "SELECT 1"

InvalidSql == "SELEC 1"

DdlSql == "COMMENT ON TABLE t IS 'x'"

\* a call's outcome: it returned val, or raised exc
PgReturn(op, arg, val) ==
    [op |-> op, arg |-> arg, kind |-> "return", exc |-> "", val |-> val]

PgRaise(op, arg, exc) ==
    [op |-> op, arg |-> arg, kind |-> "raise", exc |-> exc, val |-> ""]

\* self.postgresql_connect is None
NotConnected(p) == p.held = 0

\* psycopg2.connect(dsn) when the server answers (up) or does not: the
\* connections after it, one more when it succeeds
ConnectOk(dsn, up) == up /\ DbOf(dsn) \in ServerDbs

Opened(p, dsn) ==
    Append(p.conns, [db |-> DbOf(dsn), open |-> TRUE, alive |-> TRUE,
                     txn |-> "idle"])

\* variant: the held connection is dropped without close()
NotClosed(p) == p.conns

\* connection.close() of the held connection
ClosedHeld(p) == [p.conns EXCEPT ![p.held].open = FALSE]

\* PostgreSQLMCPHandler.connect: never raises
connect(p, up) ==
    IF ~NotConnected(p) THEN [p EXCEPT !.last = PgReturn("connect", <<>>, "None")]
    ELSE IF p.dsnSet /\ ConnectOk(p.dsn, up)
         THEN [p EXCEPT !.conns = Opened(p, p.dsn),
                        !.held  = Len(p.conns) + 1,
                        !.last  = PgReturn("connect", <<>>, "None")]
    ELSE [p EXCEPT !.last = PgReturn("connect", <<>>, "None")]

\* variant: the held connection is kept until the new one is there
StillConnected(p) == p

\* lines 34-37: the held connection is closed and forgotten
Disconnected(p) ==
    IF NotConnected(p) THEN p
    ELSE [p EXCEPT !.conns = ClosedHeld(p), !.held = 0]

\* PostgreSQLMCPHandler.target_db
target_db(p, dbname, up) ==
    LET q == Disconnected(p)
        new_dsn == ReSubDbname(q.dsn, dbname, 1)
    IN  IF ~q.dsnSet \/ q.dsn = <<>>
        THEN [q EXCEPT !.last = PgRaise("target_db", dbname, "ValueError")]
        ELSE IF ConnectOk(new_dsn, up)
             THEN [q EXCEPT !.conns = Opened(q, new_dsn),
                            !.held  = Len(q.conns) + 1,
                            !.last  = PgReturn("target_db", dbname, "None")]
        ELSE [q EXCEPT !.last = PgRaise("target_db", dbname, "OperationalError")]

\* PostgreSQLMCPHandler.close
close(p) ==
    IF NotConnected(p) THEN [p EXCEPT !.last = PgReturn("close", <<>>, "None")]
    ELSE [p EXCEPT !.conns = ClosedHeld(p), !.held = 0,
                   !.last = PgReturn("close", <<>>, "None")]

\* PostgreSQLMCPHandler.isConnected
isConnected(p) == p.held # 0

\* the statement reaches the server over the held connection
Sent(p, sql) == Append(p.sent, [conn |-> p.held, sql |-> sql])

\* the server runs a statement: not inside a failed transaction, and no error
\* in the statement
Runs(p, sql) == p.conns[p.held].txn # "aborted" /\ sql # InvalidSql

\* the answers of execute
MsgExecuted == "SQL executed"

MsgExecuteFailed == "SQL failed: {e}"

\* the held connection is broken (connection.closed is not 0): cursor(),
\* rollback() and get_dsn_parameters() raise InterfaceError, also inside an
\* except clause
Broken(p, op, sql, exc) ==
    [p EXCEPT !.conns[p.held].alive = FALSE,
              !.lastSql = sql,
              !.last = PgRaise(op, <<>>, exc)]

\* execute on a client that holds a connection. lost: the server ends the
\* connection while the statement runs, cursor.execute raises
\* OperationalError and rollback() in the except clause raises InterfaceError
ExecuteConnected(p, sql, lost) ==
    IF ~p.conns[p.held].alive THEN Broken(p, "execute", sql, "InterfaceError")
    ELSE IF lost
         THEN Broken([p EXCEPT !.sent = Sent(p, sql)], "execute", sql,
                     "InterfaceError")
    ELSE IF Runs(p, sql)
         THEN [p EXCEPT !.sent = Sent(p, sql),
                        !.conns[p.held].txn = "idle",
                        !.commits = p.commits + 1,
                        !.lastSql = sql,
                        !.last = PgReturn("execute", <<>>, MsgExecuted)]
    ELSE [p EXCEPT !.sent = Sent(p, sql),
                   !.conns[p.held].txn = "idle",
                   !.rollbacks = p.rollbacks + 1,
                   !.lastSql = sql,
                   !.last = PgReturn("execute", <<>>, MsgExecuteFailed)]

\* variant: no test of the connection, so None.cursor() fails and so does
\* None.rollback() in the except clause
executeUnguarded(p, sql, lost) ==
    IF NotConnected(p)
    THEN [p EXCEPT !.lastSql = sql,
                   !.last = PgRaise("execute", <<>>, "AttributeError")]
    ELSE ExecuteConnected(p, sql, lost)

\* PostgreSQLMCPHandler.execute
execute(p, sql, lost) ==
    IF NotConnected(p)
    THEN [p EXCEPT !.lastSql = sql,
                   !.last = PgRaise("execute", <<>>, "ConnectionError")]
    ELSE ExecuteConnected(p, sql, lost)

\* variant: the failed statement is not rolled back
ReadFailedNoRollback(p, sql) ==
    [p EXCEPT !.sent = Sent(p, sql),
              !.conns[p.held].txn = "aborted",
              !.lastSql = sql,
              !.last = PgRaise("query", <<>>, "DatabaseError")]

\* pd.read_sql_query over a DBAPI connection when the statement fails: pandas
\* rolls back and raises DatabaseError
ReadFailed(p, sql) ==
    [p EXCEPT !.sent = Sent(p, sql),
              !.conns[p.held].txn = "idle",
              !.rollbacks = p.rollbacks + 1,
              !.lastSql = sql,
              !.last = PgRaise("query", <<>>, "DatabaseError")]

\* PostgreSQLMCPHandler.query: neither commit nor rollback of its own; a
\* statement without a result set fails after it ran ('NoneType' object is not
\* iterable) and stays in the open transaction. lost: the server ends the
\* connection while the statement runs, pandas cannot roll back and raises
\* DatabaseError
query(p, sql, lost) ==
    IF NotConnected(p)
    THEN [p EXCEPT !.lastSql = sql,
                   !.last = PgRaise("query", <<>>, "ConnectionError")]
    ELSE IF ~p.conns[p.held].alive THEN Broken(p, "query", sql, "InterfaceError")
    ELSE IF lost
         THEN Broken([p EXCEPT !.sent = Sent(p, sql)], "query", sql,
                     "DatabaseError")
    ELSE IF ~Runs(p, sql) THEN ReadFailed(p, sql)
    ELSE IF sql = DdlSql
         THEN [p EXCEPT !.sent = Sent(p, sql),
                        !.conns[p.held].txn = "intrans",
                        !.lastSql = sql,
                        !.last = PgRaise("query", <<>>, "TypeError")]
    ELSE [p EXCEPT !.sent = Sent(p, sql),
                   !.conns[p.held].txn = "intrans",
                   !.lastSql = sql,
                   !.last = PgReturn("query", <<>>, "DataFrame")]

\* the answers of the tools of PostgreSQLQueryHandler
MsgConnected == "connected"

MsgConnectFailed == "connect failed: {e}"

MsgConnectedTo == "connected to database: {dbname}"

MsgTargetFailed == "connect to database failed: {e}"

\* the tool connect (connect_postgresql)
tool_connect(p, up) ==
    LET q == connect(p, up)
    IN  [q EXCEPT !.last = PgReturn("tool connect", <<>>,
                                    IF q.last.kind = "raise" THEN MsgConnectFailed
                                    ELSE MsgConnected)]

\* the tool connect_to_target_db
tool_connect_to_target_db(p, dbname, up) ==
    LET q == target_db(p, dbname, up)
    IN  [q EXCEPT !.last = PgReturn("tool connect_to_target_db", dbname,
                                    IF q.last.kind = "raise" THEN MsgTargetFailed
                                    ELSE MsgConnectedTo)]

\* the most calls made on one client
MaxCalls == 4

\* the values of the environment variable DSN
DsnPool ==
    { DbnameKey \o <<"a", " ">> \o UserKey \o <<"u">>,             \* dbname=a user=u
      UserKey \o <<"u">>,                                          \* user=u
      DbnameKey \o <<"a", "-", "b", " ">> \o UserKey \o <<"u">> }  \* dbname=a-b user=u

\* the sql arguments
Statements == {ValidSql, InvalidSql, DdlSql}

\* the dbname arguments: a database of the server, and one it does not have
Targets == { <<"b">>, <<"c">> }

\* PostgreSQLMCPHandler(): no connection; DSN is not set yet
PgStart ==
    [pc |-> "env", dsnSet |-> FALSE, dsn |-> <<>>, held |-> 0, conns |-> <<>>,
     sent |-> <<>>, commits |-> 0, rollbacks |-> 0, calls |-> 0, lastSql |-> "",
     last |-> PgReturn("__init__", <<>>, "None")]

(* ---------------------------------------------------------- to_postgresql *)

\* the keys lines 60-67 read from the parsed DSN
UrlKeys == {"user", "password", "host", "port"}

\* "does not exist" of line 40, word by word
DoesNotExist == <<"does", "not", "exist">>

\* str(e) of the OperationalError of a refused connection, word by word; the
\* server words its messages in its own language (lc_messages)
MsgRefused == <<"connection", "refused">>

MsgNoRole(lang) ==
    IF lang = "en" THEN <<"role", "u">> \o DoesNotExist
    ELSE <<"Rolle", "u", "existiert", "nicht">>

MsgNoDatabase(db, lang) ==
    IF lang = "en" THEN <<"database", db>> \o DoesNotExist
    ELSE <<"Datenbank", db, "existiert", "nicht">>

MsgDenied(db, lang) ==
    IF lang = "en" THEN <<"permission", "denied", "for", "database", db>>
    ELSE <<"keine", "Berechtigung", "fuer", "Datenbank", db>>

\* why the server e refuses a connection to db: "" when it does not
Refusal(e, db) ==
    IF ~e.up THEN "unreachable"
    ELSE IF ~e.roleOk THEN "no role"
    ELSE IF db \notin e.dbs THEN "no database"
    ELSE IF db \in e.denied THEN "denied"
    ELSE ""

\* psycopg2.connect(dbname=db, ...): str(e) of the error, <<>> on success
ConnectError(e, db) ==
    CASE Refusal(e, db) = "unreachable" -> MsgRefused
      [] Refusal(e, db) = "no role"     -> MsgNoRole(e.lang)
      [] Refusal(e, db) = "no database" -> MsgNoDatabase(db, e.lang)
      [] Refusal(e, db) = "denied"      -> MsgDenied(db, e.lang)
      [] OTHER                          -> <<>>

\* an event at the server
Event(ev, db) == [ev |-> ev, db |-> db]

\* the run went on to event ev, and ended in exception exc ("" when it goes on)
Logged(e, ev, db) == [e EXCEPT !.log = Append(e.log, Event(ev, db))]

Ended(e, kind, exc) == [e EXCEPT !.pc = "done", !.kind = kind, !.exc = exc]

\* lines 59-81: the URL, the engine, df.to_sql
WriteTable(e, dbname) ==
    IF ~(UrlKeys \subseteq e.dsn) THEN Ended(e, "raise", "KeyError")
    ELSE IF ConnectError(e, dbname) # <<>>
         THEN Ended(e, "raise", "sqlalchemy.exc.OperationalError")
    ELSE Ended(Logged(e, "to_sql", dbname), "return", "")

\* lines 42-54: CREATE DATABASE over a connection to the database postgres
CreateDatabase(e, dbname) ==
    IF ConnectError(e, "postgres") # <<>>
    THEN Ended(e, "raise", "OperationalError")
    ELSE LET c == Logged(e, "CREATE DATABASE", dbname)
         IN  IF e.canCreate /\ dbname \notin e.dbs
             THEN WriteTable([c EXCEPT !.dbs = e.dbs \cup {dbname}], dbname)
             ELSE Ended(c, "raise", "ProgrammingError")

\* variant: every OperationalError is taken for a missing database
ShouldCreateAlways(msg) == TRUE

\* "does not exist" in str(e)
ShouldCreate(msg) == In(DoesNotExist, msg)

\* to_postgresql(dbname, table_name, df, if_exists) at the server and
\* environment e; first keeps why the first connection was refused
to_postgresql(e, dbname) ==
    IF ~e.dsnSet THEN Ended(e, "raise", "ValueError")
    ELSE LET msg == ConnectError(e, dbname)
             f   == [e EXCEPT !.first = IF msg = <<>> THEN "ok"
                                        ELSE Refusal(e, dbname)]
         IN  IF msg = <<>> THEN WriteTable(f, dbname)
             ELSE IF ShouldCreate(msg) THEN CreateDatabase(f, dbname)
             ELSE Ended(f, "raise", "OperationalError")

\* the databases of the server before the run, and the dbname arguments
LdDbs == {"postgres", "x"}

LdTargets == {"x", "y"}

\* the values of DSN: the keys given
LdDsns == { UrlKeys \cup {"dbname"}, {"user", "dbname"} }

\* a server that is up, in English, with the role and both databases; DSN unset
LdStart ==
    [pc |-> "env", dsnSet |-> FALSE, dsn |-> {}, up |-> TRUE, roleOk |-> TRUE,
     lang |-> "en", dbs |-> LdDbs, denied |-> {}, canCreate |-> TRUE,
     dbname |-> "", first |-> "", log |-> <<>>, kind |-> "", exc |-> ""]

(* ------------------------------------------------------- compute_row_hash *)

\* sep="|||"
Sep == <<"|", "|", "|">>

\* the text "NaN" a missing value is replaced by (line 37)
NaNText == <<"N", "a", "N">>

\* lines 36-40 for a cell that is missing or a string: pd.isna(val) and str(val)
ValueText(val) == IF val = NaN THEN NaNText ELSE val.s

\* sep.join(values)
RECURSIVE Join(_, _)
Join(values, sep) ==
    IF values = <<>> THEN <<>>
    ELSE IF Len(values) = 1 THEN values[1]
    ELSE values[1] \o sep \o Join(Tail(values), sep)

\* the columns of the DataFrame before the call, in order
HsColumns == <<"c1", "c2">>

\* row[col]
Cell(row, col) ==
    row[CHOOSE k \in 1..Len(HsColumns) : HsColumns[k] = col]

\* combined_str of calculate_hash(row)
Combined(row, target_cols) ==
    Join([k \in 1..Len(target_cols) |-> ValueText(Cell(row, target_cols[k]))], Sep)

\* hashlib.new(hash_algorithm, combined_str.encode("utf-8")).hexdigest(): the
\* digest is kept as the algorithm and the text it was computed from
Digest(hash_algorithm, combined_str) ==
    [alg |-> hash_algorithm, input |-> combined_str]

\* hashlib.algorithms_available, as far as the model uses it
AlgorithmsAvailable == {"md5", "sha256"}

\* compute_row_hash(df, target_cols, sep, hash_algorithm) on the rows of h
compute_row_hash(h, target_cols, hash_algorithm) ==
    IF \E k \in 1..Len(target_cols) :
           \A c \in 1..Len(HsColumns) : HsColumns[c] # target_cols[k]
    THEN [h EXCEPT !.pc = "done", !.kind = "raise", !.exc = "ValueError"]
    ELSE IF hash_algorithm \notin AlgorithmsAvailable
         THEN [h EXCEPT !.pc = "done", !.kind = "raise", !.exc = "ValueError"]
    ELSE [h EXCEPT !.pc = "done", !.kind = "return",
                   !.hash = [i \in 1..Len(h.rows) |->
                                Digest(hash_algorithm,
                                       Combined(h.rows[i], target_cols))]]

\* the most rows the DataFrame has
MaxRows == 2

\* the cells: missing, the text NaN, a letter, a text that holds the
\* separator, the empty text
Cells ==
    { NaN, StrV(NaNText), StrV(<<"a">>), StrV(<<"a">> \o Sep \o <<"a">>),
      StrV(<<>>) }

\* the target_cols and hash_algorithm arguments
TargetCols == { <<"c1", "c2">>, <<"c2">>, <<"c1", "zz">> }

Algorithms == {"md5", "crc"}

\* a DataFrame with the columns c1 and c2 and no row yet
HsStart ==
    [pc |-> "filling", rows |-> <<>>, target_cols |-> <<>>, kind |-> "",
     exc |-> "", hash |-> <<>>]

(* ------------------------------------------------------ the state machine *)

VARIABLES
    file,     \* the lines of the export file, as written (raw)
    pc,       \* "writing": the file is being produced; "done": a call has ended
    call,     \* the call made: [fn, path]
    result,   \* its outcome
    kw,       \* split_file_by_keyword: the files and the call's outcome
    cl,       \* remove_total_rows_line: the content and the cleaned text
    pg,       \* PostgreSQLMCPHandler, its server and the tools' answers
    ld,       \* to_postgresql: the server and the run's progress
    hs        \* compute_row_hash: the DataFrame and the call's outcome

vars == <<file, pc, call, result, kw, cl, pg, ld, hs>>


NoCall == [fn |-> "", path |-> [exists |-> FALSE, ext |-> ""]]

Init ==
    /\ file = <<>>
    /\ pc = "writing"
    /\ call = NoCall
    /\ result = Raise("", "", "")
    /\ kw = KwStart
    /\ cl = ClStart
    /\ pg = PgStart
    /\ ld = LdStart
    /\ hs = HsStart

\* the producer of the export appends one more line
WriteLine(l) ==
    /\ pc = "writing"
    /\ Len(file) < MaxLines
    /\ file' = Append(file, l)
    /\ UNCHANGED <<pc, call, result, kw, cl, pg, ld, hs>>

\* a path that does not exist names no written file
CallReadCsvIntoParts(path) ==
    /\ pc = "writing"
    /\ ~path.exists => file = <<>>
    /\ pc' = "done"
    /\ call' = [fn |-> "read_csv_into_parts", path |-> path]
    /\ result' = read_csv_into_parts(path, file)
    /\ UNCHANGED <<file, kw, cl, pg, ld, hs>>

\* split_broken_csv never looks at the extension: one extension is enough
CallSplitBrokenCsv(path) ==
    /\ pc = "writing"
    /\ ~path.exists => file = <<>>
    /\ path.ext # ".dat"
    /\ pc' = "done"
    /\ call' = [fn |-> "split_broken_csv", path |-> path]
    /\ result' = split_broken_csv(path, file)
    /\ UNCHANGED <<file, kw, cl, pg, ld, hs>>

Next ==
    \/ \E l \in LinePool : WriteLine(l)
    \/ \E path \in Paths : CallReadCsvIntoParts(path)
    \/ \E path \in Paths : CallSplitBrokenCsv(path)

Spec == Init /\ [][Next]_vars

(* ------------------------------------------------------------ the claims *)

\* the lines the call worked on, and the index of the line it took as sentinel
Lines == StrippedLines(file)

S == FindTotalRowIndex(Lines)

\* the indices a, a+1, ..., b-1
Range(a, b) == [k \in 1..(IF b > a THEN b - a ELSE 0) |-> a + k - 1]

\* how often index i occurs among the lines the two tables were parsed from
Uses(i) ==
    Cardinality({k \in 1..Len(result.src1) : result.src1[k] = i})
    + Cardinality({k \in 1..Len(result.src2) : result.src2[k] = i})

\* read_csv_into_parts ended on a file it accepted (it exists, .csv or .txt)
RcipDone ==
    /\ pc = "done"
    /\ call.fn = "read_csv_into_parts"
    /\ call.path.exists
    /\ Lower(call.path.ext) \in {".csv", ".txt"}

\* split_broken_csv ended on a file that exists
SbcDone ==
    /\ pc = "done"
    /\ call.fn = "split_broken_csv"
    /\ call.path.exists

\* the two tables are the ones parsed from header 0, data [1, stop) and from
\* header h, data [h+1, end); every line but those in `dropped` is in exactly one
SplitAt(stop, h, dropped) ==
    LET n == Len(Lines)
    IN  /\ result.src1 = Range(0, stop)
        /\ result.src2 = Range(h, n)
        /\ result.df_part1 = ReadCsv(At(Lines, 0), Slice(Lines, 1, stop)).df
        /\ DfLen(result.df_part1) = stop - 1
        /\ IF h < n
           THEN /\ result.df_part2 = ReadCsv(At(Lines, h), Slice(Lines, h + 1, n)).df
                /\ DfLen(result.df_part2) = n - h - 1
           ELSE result.df_part2 = EmptyDataFrame
        /\ \A i \in 0..(n - 1) : Uses(i) = IF i \in dropped THEN 0 ELSE 1

\* C1 as stated: whenever read_csv_into_parts returns and the sentinel line is at
\* index s, for any s from 0 on, the first table is parsed from header line 0 and
\* data lines [1, s), the second from header line s+1 and data lines [s+2, end),
\* the sentinel line is in neither and every other line in exactly one.
C1_AnySentinelIndex ==
    (RcipDone /\ result.kind = "return" /\ S # None) => SplitAt(S, S + 1, {S})

\* C1, amended: the same for a sentinel line at an index s >= 1 (at s = 0 the
\* sentinel line is line 0 and is the header of the first table).
C1_SentinelSplit ==
    (RcipDone /\ result.kind = "return" /\ S # None /\ S >= 1)
        => SplitAt(S, S + 1, {S})

\* a file with a sentinel line at index 2 or later and a second table with data
C1_Witness ==
    /\ RcipDone /\ result.kind = "return"
    /\ S >= 2 /\ S + 2 < Len(Lines)
    /\ DfLen(result.df_part1) >= 1 /\ DfLen(result.df_part2) >= 1

\* what the caller can tell an exception by: its type and its message
Visible(r) == <<r.kind, r.exc, r.msg>>

\* a file with a well-formed sentinel line whose first table the parser rejects
RejectedRows ==
    << <<"0", "7">>, <<"0", "7">>, <<"a", TAB, "2", TAB, "c">>, Label \o <<TAB, "2">> >>

\* a file whose well-formed sentinel line is the last line
SentinelLast == << <<"0", "7">>, Label \o <<TAB, "2">> >>

\* C2 as stated: with the sentinel line at index s, a returned sentinel value is
\* the second tab-separated field of line s; and when line s has fewer than two
\* fields the call fails with a condition of its own, one the caller can tell
\* from the failures of inputs whose sentinel line is well formed.
C2_MalformedSentinelDistinct ==
    ((RcipDone \/ SbcDone) /\ S # None) =>
        LET fields == Split(At(Lines, S))
        IN  /\ result.kind = "return" =>
                Len(fields) >= 2 /\ result.total_rows = fields[2]
            /\ Len(fields) < 2 =>
                /\ result.kind = "raise"
                /\ RcipDone => Visible(result)
                                   # Visible(read_csv_into_parts(call.path, RejectedRows))
                /\ SbcDone => Visible(result)
                                   # Visible(split_broken_csv(call.path, SentinelLast))

\* C3 as stated: with no line left after dropping blank lines the call fails;
\* it never returns a result.
C3_EmptyInputFails ==
    ((RcipDone \/ SbcDone) /\ Lines = <<>>) => result.kind = "raise"

C8_SentinelLastLine ==
    ((RcipDone \/ SbcDone)
        /\ S # None /\ S = Len(Lines) - 1
        /\ Len(Split(At(Lines, S))) >= 2
        /\ ReadCsv(At(Lines, 0), Slice(Lines, 1, S)).ok)
    => /\ result.kind = "return"
       /\ result.df_part2 = EmptyDataFrame

\* C9 as stated: the line taken as the sentinel has a first tab-separated field
\* that is exactly the label.
C9_ExactFirstField ==
    ((RcipDone \/ SbcDone) /\ S # None) => Split(At(Lines, S))[1] = Label

(* The re-serialization of a result: the lines of the first table, the      *)
(* sentinel line (label, tab, sentinel value), the lines of the second      *)
(* table; a table's lines are its column names and then its rows, index     *)
(* values first, joined by tabs; NaN is written as the empty field.         *)

RenderValue(v) ==
    IF v.t = "nan" THEN <<>>
    ELSE IF v.t = "str" THEN v.s
    ELSE DecStr(v.n)

TableLines(df) ==
    IF df.columns = <<>> THEN <<>>
    ELSE <<JoinTab(df.columns)>>
         \o [i \in 1..Len(df.data) |->
               JoinTab([j \in 1..Len(df.index[i] \o df.data[i]) |->
                           RenderValue((df.index[i] \o df.data[i])[j])])]

Reserialized(r) ==
    TableLines(r.df_part1) \o <<Label \o <<TAB>> \o r.total_rows>>
        \o TableLines(r.df_part2)

\* C10 as stated: for an input with a sentinel line, running the call again on
\* the re-serialized result returns the same two tables and sentinel value.
C10_Idempotent ==
    (RcipDone /\ result.kind = "return" /\ S # None) =>
        LET again == read_csv_into_parts(call.path, Reserialized(result))
        IN  /\ again.kind = "return"
            /\ again.df_part1 = result.df_part1
            /\ again.total_rows = result.total_rows
            /\ again.df_part2 = result.df_part2

(* ---------------------------------------------------------- C11 and C12 *)

\* C11 as stated: the outcome of read_csv_into_parts depends on nothing but the
\* raw text (and the label): it is what the text alone determines, whatever
\* else holds outside the call.
C11_DependsOnTextOnly ==
    (pc = "done" /\ call.fn = "read_csv_into_parts")
        => result = ExceptClause(ReadCsvIntoPartsBody(file))

\* C12 as stated: a call of read_csv_into_parts on a file it accepts ends in a
\* result, or fails because no line is left (EmptyInputError), or fails because
\* the sentinel line has fewer than two fields (MalformedSentinelError); there
\* is no other failure.
C12_ThreeOutcomes ==
    RcipDone =>
        \/ result.kind = "return" /\ Lines # <<>>
        \/ result.kind = "raise" /\ Lines = <<>>
        \/ /\ result.kind = "raise"
           /\ S # None
           /\ Len(Split(At(Lines, S))) < 2

(* ------------------------------------------------------------------ C15 *)

\* the lines of the file that survive line 118, as they were written
RawKept == SelectSeq(file, LAMBDA l : Strip(l) # <<>>)

\* the tab-separated values of a line as written, each without the blanks
\* around it
RawValues(l) == [k \in 1..Len(Split(l)) |-> Strip(Split(l)[k])]

\* a cell of a table holds the value f, whatever dtype its column has
Holds(cell, f) ==
    IF IsNa(f) THEN cell = NaN
    ELSE \/ cell = StrV(f)
         \/ IsDigitString(f) /\ cell \in {IntV(ParseInt(f)), FloatV(ParseInt(f))}

\* C15 as stated, for the first table: when its header line has N tab-separated
\* columns and one of its data lines has N tab-separated values, the first or
\* the last of them possibly empty, the row read from that line has N fields
\* and the k-th field holds the k-th value of the line.
C15_FieldsByPosition ==
    (RcipDone /\ result.kind = "return") =>
        \A i \in 2..Len(result.src1) :
            LET h   == RawValues(RawKept[result.src1[1] + 1])
                d   == RawValues(RawKept[result.src1[i] + 1])
                row == result.df_part1.data[i - 1]
            IN  Len(h) = Len(d) =>
                    /\ Len(row) = Len(h)
                    /\ \A k \in 1..Len(h) : Holds(row[k], d[k])

(* ------------------------------------------------------------------ C22 *)

\* the indices of the lines that begin with the label
SentinelIndices == {i \in 0..(Len(Lines) - 1) : StartsWith(At(Lines, i), Label)}

\* C22: when several lines begin with the label and read_csv_into_parts
\* returns, the sentinel value is the second field of the one with the
\* smallest index, and every later one is a line of the second table, once,
\* and no line of the first.
C22_FirstSentinelWins ==
    (RcipDone /\ result.kind = "return" /\ Cardinality(SentinelIndices) >= 2) =>
        \E s \in SentinelIndices :
            /\ \A j \in SentinelIndices : s <= j
            /\ Len(Split(At(Lines, s))) >= 2
            /\ result.total_rows = Split(At(Lines, s))[2]
            /\ \A j \in SentinelIndices \ {s} :
                   /\ Cardinality({k \in 1..Len(result.src2) : result.src2[k] = j}) = 1
                   /\ \A k \in 1..Len(result.src1) : result.src1[k] # j

\* two lines begin with the label and carry different values, the first is not
\* line 0, the second is a data line of the second table
C22_Witness ==
    /\ RcipDone /\ result.kind = "return"
    /\ \E s \in SentinelIndices, j \in SentinelIndices :
           /\ 1 <= s /\ s + 2 <= j
           /\ Len(Split(At(Lines, j))) >= 2
           /\ Split(At(Lines, j))[2] # result.total_rows
           /\ Len(Split(At(Lines, s))) >= 2
           /\ result.total_rows = Split(At(Lines, s))[2]

(* ------------------------------------------ split_file_by_keyword, calls *)

\* the input file comes into being, empty
KwCreateInput ==
    /\ kw.pc = "writing"
    /\ ~kw.input.exists
    /\ kw' = [kw EXCEPT !.input = FileOf(<<>>)]
    /\ UNCHANGED <<file, pc, call, result, cl, pg, ld, hs>>

\* one more character in the input file
KwWriteChar(c) ==
    /\ kw.pc = "writing"
    /\ kw.input.exists
    /\ Len(kw.input.data) < MaxContent
    /\ kw' = [kw EXCEPT !.input = FileOf(Append(kw.input.data, c))]
    /\ UNCHANGED <<file, pc, call, result, cl, pg, ld, hs>>

\* an earlier run left the first output file behind
KwLeaveOutput1 ==
    /\ kw.pc = "writing"
    /\ ~kw.out1.exists
    /\ kw' = [kw EXCEPT !.out1 = FileOf(OldOutput)]
    /\ UNCHANGED <<file, pc, call, result, cl, pg, ld, hs>>

\* an earlier run left the second output file behind
KwLeaveOutput2 ==
    /\ kw.pc = "writing"
    /\ ~kw.out2.exists
    /\ kw' = [kw EXCEPT !.out2 = FileOf(OldOutput)]
    /\ UNCHANGED <<file, pc, call, result, cl, pg, ld, hs>>

\* split_file_by_keyword(input_path, keyword, output1_path, output2_path);
\* before keeps the output files as the call found them
CallSplitFileByKeyword(keyword) ==
    /\ kw.pc = "writing"
    /\ kw' = [split_file_by_keyword(kw, keyword)
                 EXCEPT !.pc = "done", !.keyword = keyword,
                        !.before = <<kw.out1, kw.out2>>]
    /\ UNCHANGED <<file, pc, call, result, cl, pg, ld, hs>>

NextKeyword ==
    \/ KwCreateInput
    \/ \E c \in ContentChars : KwWriteChar(c)
    \/ KwLeaveOutput1
    \/ KwLeaveOutput2
    \/ \E keyword \in Keywords : CallSplitFileByKeyword(keyword)

SpecKeyword == Init /\ [][NextKeyword]_vars

(* ---------------------------------------------------------- C13 and C14 *)

\* the text the call read
KwText == ReadText(kw.input.data)

\* C13 as stated: whenever the text contains the keyword, the call writes the
\* text before the first occurrence and the text after it, and
\* first + keyword + second is the text.
C13_SplitsWheneverContained ==
    (kw.pc = "done" /\ kw.input.exists /\ In(kw.keyword, KwText)) =>
        /\ kw.ret = AbsPaths
        /\ kw.out1.exists /\ kw.out2.exists
        /\ kw.out1.data \o kw.keyword \o kw.out2.data = KwText

\* C13, amended: whenever the text contains the keyword and the keyword is not
\* empty, the call returns the two paths, first + keyword + second is the
\* text, and the keyword occurs nowhere in first + keyword but at its end (so
\* the cut is at the first occurrence, the first output holds none, and the
\* second output is all that follows).
C13_SplitAtFirstOccurrence ==
    (kw.pc = "done" /\ kw.input.exists /\ kw.keyword # <<>>
        /\ In(kw.keyword, KwText)) =>
        /\ kw.ret = AbsPaths
        /\ kw.out1.exists /\ kw.out2.exists
        /\ kw.out1.data \o kw.keyword \o kw.out2.data = KwText
        /\ ~In(kw.keyword, kw.out1.data)
        /\ \A i \in 1..Len(kw.out1.data) :
               ~OccursAt(kw.out1.data \o kw.keyword, kw.keyword, i)

\* a split of a text that holds the keyword twice, with text on both sides
C13_Witness ==
    /\ kw.pc = "done"
    /\ kw.ret = AbsPaths
    /\ kw.keyword # <<>>
    /\ kw.out1.data # <<>>
    /\ In(kw.keyword, kw.out2.data)

\* C14: whenever the text does not contain the keyword, the call returns
\* (None, None) and each output file is as the call found it: not created when
\* it was absent, its content untouched when it was there.
C14_AbsentIsNoOp ==
    (kw.pc = "done" /\ kw.input.exists /\ ~In(kw.keyword, KwText)) =>
        /\ kw.ret = NoneNone
        /\ <<kw.out1, kw.out2>> = kw.before

\* the keyword is absent from a text that is not empty, one output file was
\* there before the call and the other was not
C14_Witness ==
    /\ kw.pc = "done"
    /\ kw.input.exists /\ KwText # <<>>
    /\ ~In(kw.keyword, KwText)
    /\ kw.before = <<FileOf(OldOutput), NoFile>>

(* ----------------------------------------- remove_total_rows_line, calls *)

\* one more piece of content
ClAppend(piece) ==
    /\ cl.pc = "writing"
    /\ cl.pieces < MaxPieces
    /\ cl' = [cl EXCEPT !.content = cl.content \o piece, !.pieces = cl.pieces + 1]
    /\ UNCHANGED <<file, pc, call, result, kw, pg, ld, hs>>

\* cleaned = remove_total_rows_line(content)
CallRemoveTotalRowsLine ==
    /\ cl.pc = "writing"
    /\ cl' = [cl EXCEPT !.pc = "done",
                        !.cleaned = remove_total_rows_line(cl.content)]
    /\ UNCHANGED <<file, pc, call, result, kw, pg, ld, hs>>

NextClean ==
    \/ \E piece \in Pieces : ClAppend(piece)
    \/ CallRemoveTotalRowsLine

SpecClean == Init /\ [][NextClean]_vars

(* ------------------------------------------------------------------ C16 *)

\* the lines of a text
RECURSIVE TextLines(_)
TextLines(s) ==
    IF \E i \in 1..Len(s) : s[i] = NL
    THEN LET i == CHOOSE k \in 1..Len(s) :
                     s[k] = NL /\ \A j \in 1..(k - 1) : s[j] # NL
         IN  <<SubSeq(s, 1, i - 1)>> \o TextLines(SubSeq(s, i + 1, Len(s)))
    ELSE <<s>>

\* a line of the form: optional white space, Total_Rows in any letter case,
\* white space, a run of digits (and white space after it)
IsTotalRowsLine(l) ==
    \E a \in 0..Len(l), c \in 1..Len(l), d \in 1..Len(l) :
        /\ \A k \in 1..a : l[k] \in Whitespace
        /\ LabelAt(l, a + 1)
        /\ c > a + Len(Label)
        /\ \A k \in (a + Len(Label) + 1)..c : l[k] \in Whitespace
        /\ d > c
        /\ \A k \in (c + 1)..d : IsDigit(l[k])
        /\ \A k \in (d + 1)..Len(l) : l[k] \in Whitespace

\* the lines of a text that hold more than white space, each without the
\* white space around it
SolidLines(s) ==
    LET ls == TextLines(s)
    IN  SelectSeq([i \in 1..Len(ls) |-> Strip(ls[i])], LAMBDA l : l # <<>>)

\* C16 as stated, read in the claim's favour (white space at the ends of a
\* line is not compared, and a line of white space counts as blank): the lines
\* of the result are the non-blank lines of the content, in order, without
\* those of the form Total_Rows <digits>; no other line is removed.
C16_OnlyTotalRowsLinesRemoved ==
    cl.pc = "done" =>
        SolidLines(cl.cleaned)
            = SelectSeq(SolidLines(cl.content), LAMBDA l : ~IsTotalRowsLine(l))

(* ------------------------------------------- PostgreSQLMCPHandler, calls *)

\* the process starts with DSN set to d
PgSetDsn(d) ==
    /\ pg.pc = "env"
    /\ pg' = [pg EXCEPT !.pc = "run", !.dsnSet = TRUE, !.dsn = d]
    /\ UNCHANGED <<file, pc, call, result, kw, cl, ld, hs>>

\* the process starts without DSN
PgNoDsn ==
    /\ pg.pc = "env"
    /\ pg' = [pg EXCEPT !.pc = "run"]
    /\ UNCHANGED <<file, pc, call, result, kw, cl, ld, hs>>

\* client.connect()
CallConnect(up) ==
    /\ pg.pc = "run"
    /\ pg.calls < MaxCalls
    /\ pg' = [connect(pg, up) EXCEPT !.calls = pg.calls + 1]
    /\ UNCHANGED <<file, pc, call, result, kw, cl, ld, hs>>

\* client.target_db(dbname)
CallTargetDb(dbname, up) ==
    /\ pg.pc = "run"
    /\ pg.calls < MaxCalls
    /\ pg' = [target_db(pg, dbname, up) EXCEPT !.calls = pg.calls + 1]
    /\ UNCHANGED <<file, pc, call, result, kw, cl, ld, hs>>

\* client.close()
CallClose ==
    /\ pg.pc = "run"
    /\ pg.calls < MaxCalls
    /\ pg' = [close(pg) EXCEPT !.calls = pg.calls + 1]
    /\ UNCHANGED <<file, pc, call, result, kw, cl, ld, hs>>

\* client.execute(sql)
CallExecute(sql, lost) ==
    /\ pg.pc = "run"
    /\ pg.calls < MaxCalls
    /\ pg' = [execute(pg, sql, lost) EXCEPT !.calls = pg.calls + 1]
    /\ UNCHANGED <<file, pc, call, result, kw, cl, ld, hs>>

\* client.query(sql)
CallQuery(sql, lost) ==
    /\ pg.pc = "run"
    /\ pg.calls < MaxCalls
    /\ pg' = [query(pg, sql, lost) EXCEPT !.calls = pg.calls + 1]
    /\ UNCHANGED <<file, pc, call, result, kw, cl, ld, hs>>

\* the tool connect is called
CallToolConnect(up) ==
    /\ pg.pc = "run"
    /\ pg.calls < MaxCalls
    /\ pg' = [tool_connect(pg, up) EXCEPT !.calls = pg.calls + 1]
    /\ UNCHANGED <<file, pc, call, result, kw, cl, ld, hs>>

\* the tool connect_to_target_db is called
CallToolConnectToTargetDb(dbname, up) ==
    /\ pg.pc = "run"
    /\ pg.calls < MaxCalls
    /\ pg' = [tool_connect_to_target_db(pg, dbname, up)
                 EXCEPT !.calls = pg.calls + 1]
    /\ UNCHANGED <<file, pc, call, result, kw, cl, ld, hs>>

NextPg ==
    \/ \E d \in DsnPool : PgSetDsn(d)
    \/ PgNoDsn
    \/ \E up \in BOOLEAN : CallConnect(up)
    \/ \E dbname \in Targets, up \in BOOLEAN : CallTargetDb(dbname, up)
    \/ CallClose
    \/ \E sql \in Statements, lost \in BOOLEAN : CallExecute(sql, lost)
    \/ \E sql \in Statements, lost \in BOOLEAN : CallQuery(sql, lost)
    \/ \E up \in BOOLEAN : CallToolConnect(up)
    \/ \E dbname \in Targets, up \in BOOLEAN : CallToolConnectToTargetDb(dbname, up)

SpecPg == Init /\ [][NextPg]_vars

(* ------------------------------------------------------ C17, C18 and C19 *)

\* C17 as stated: whenever target_db(dbname), or the tool on top of it, ends
\* without an error, the client holds an open connection to the database
\* dbname, whatever DSN holds.
C17_ConnectedToTarget ==
    \/ ~( \/ pg.last.op = "target_db" /\ pg.last.kind = "return"
          \/ pg.last.op = "tool connect_to_target_db" /\ pg.last.val = MsgConnectedTo )
    \/ /\ pg.held # 0
       /\ pg.conns[pg.held].open
       /\ pg.conns[pg.held].db = pg.last.arg

\* C18 as stated: the tool connect answers "connected" only if the client is
\* connected after the call.
C18_ConnectedOnlyIfConnected ==
    (pg.last.op = "tool connect" /\ pg.last.val = MsgConnected) => isConnected(pg)

\* C19: execute and query on a client that holds no connection raise
\* ConnectionError, send no statement, and leave the client as it was: no
\* connection held, the connections it opened and DSN unchanged.
C19_DisconnectedRaises ==
    [][ ( /\ pg.pc = "run" /\ pg'.calls = pg.calls + 1
          /\ pg'.last.op \in {"execute", "query"}
          /\ pg.held = 0 )
        => ( /\ pg'.last.kind = "raise"
             /\ pg'.last.exc = "ConnectionError"
             /\ pg'.sent = pg.sent
             /\ pg'.held = 0
             /\ pg'.conns = pg.conns
             /\ pg'.dsn = pg.dsn /\ pg'.dsnSet = pg.dsnSet )
      ]_vars

\* execute raised ConnectionError on a client that was connected, sent a
\* statement, and was closed
C19_Witness ==
    /\ pg.last.op = "execute"
    /\ pg.last.exc = "ConnectionError"
    /\ pg.held = 0
    /\ pg.conns # <<>>
    /\ pg.sent # <<>>

(* ------------------------------------------------------------------ C23 *)

\* C23: after every call, each connection the client has opened and not
\* closed is the one held in postgresql_connect, so at most one is open and
\* none is open without being referenced; and connect on a connected client
\* opens no connection and keeps the held one.
C23_OnlyHeldConnectionOpen ==
    [][ /\ \A i \in 1..Len(pg'.conns) : pg'.conns[i].open => i = pg'.held
        /\ pg'.held # 0 => (pg'.held \in 1..Len(pg'.conns) /\ pg'.conns[pg'.held].open)
        /\ ( /\ pg'.calls = pg.calls + 1
             /\ pg'.last.op \in {"connect", "tool connect"}
             /\ pg.held # 0 )
           => (pg'.conns = pg.conns /\ pg'.held = pg.held)
      ]_vars

\* target_db on a connected client: the old connection is closed, the new one
\* is open and held
C23_Witness ==
    /\ pg.last.op = "target_db" /\ pg.last.kind = "return"
    /\ Len(pg.conns) >= 2
    /\ pg.held = Len(pg.conns)
    /\ ~pg.conns[1].open

(* ------------------------------------------------------ C24, C25 and C26 *)

\* the step is a call of execute on a client that holds a connection
ExecuteStep ==
    /\ pg.pc = "run" /\ pg'.calls = pg.calls + 1
    /\ pg'.last.op = "execute"
    /\ pg.held # 0

\* the call before ended in an error or a failure answer, on the connection held
FailedBefore ==
    /\ pg.held # 0
    /\ pg.last.op \in {"execute", "query"}
    /\ pg.last.kind = "raise" \/ pg.last.val = MsgExecuteFailed

\* C24 as stated: execute on a client whose connection is up when the call
\* starts never raises; it keeps the connection held and leaves no transaction
\* open; on success it has committed once and answers success, otherwise it has
\* rolled back and answers failure.
C24_ExecuteNeverRaises ==
    [][ (ExecuteStep /\ pg.conns[pg.held].alive) =>
            /\ pg'.last.kind = "return"
            /\ pg'.held = pg.held
            /\ pg'.conns[pg.held].txn = "idle"
            /\ \/ /\ pg'.last.val = MsgExecuted
                  /\ pg'.commits = pg.commits + 1
                  /\ pg'.rollbacks = pg.rollbacks
               \/ /\ pg'.last.val = MsgExecuteFailed
                  /\ pg'.commits = pg.commits
                  /\ pg'.rollbacks = pg.rollbacks + 1
      ]_vars

C26_FailedSwitchDisconnects ==
    ( \/ pg.last.op = "target_db" /\ pg.last.kind = "raise"
      \/ pg.last.op = "tool connect_to_target_db" /\ pg.last.val = MsgTargetFailed )
    => ( /\ ~isConnected(pg)
         /\ \A i \in 1..Len(pg.conns) : ~pg.conns[i].open )

\* the first call opened a connection, the second is a target_db whose
\* connection attempt failed
C26_Witness ==
    /\ pg.calls = 2
    /\ pg.last.op = "target_db" /\ pg.last.exc = "OperationalError"
    /\ Len(pg.conns) = 1
    /\ ~pg.conns[1].open
    /\ pg.held = 0

(* --------------------------------------------------- to_postgresql, calls *)

\* the environment and the server before the run
LdSetDsn(keys) ==
    /\ ld.pc = "env" /\ ~ld.dsnSet
    /\ ld' = [ld EXCEPT !.dsnSet = TRUE, !.dsn = keys]
    /\ UNCHANGED <<file, pc, call, result, kw, cl, pg, hs>>

LdServerDown ==
    /\ ld.pc = "env" /\ ld.up
    /\ ld' = [ld EXCEPT !.up = FALSE]
    /\ UNCHANGED <<file, pc, call, result, kw, cl, pg, hs>>

LdNoRole ==
    /\ ld.pc = "env" /\ ld.roleOk
    /\ ld' = [ld EXCEPT !.roleOk = FALSE]
    /\ UNCHANGED <<file, pc, call, result, kw, cl, pg, hs>>

LdOtherLanguage ==
    /\ ld.pc = "env" /\ ld.lang = "en"
    /\ ld' = [ld EXCEPT !.lang = "de"]
    /\ UNCHANGED <<file, pc, call, result, kw, cl, pg, hs>>

LdNoDatabase(db) ==
    /\ ld.pc = "env" /\ db \in ld.dbs
    /\ ld' = [ld EXCEPT !.dbs = ld.dbs \ {db}]
    /\ UNCHANGED <<file, pc, call, result, kw, cl, pg, hs>>

LdDeny(db) ==
    /\ ld.pc = "env" /\ db \notin ld.denied
    /\ ld' = [ld EXCEPT !.denied = ld.denied \cup {db}]
    /\ UNCHANGED <<file, pc, call, result, kw, cl, pg, hs>>

LdNoCreateDb ==
    /\ ld.pc = "env" /\ ld.canCreate
    /\ ld' = [ld EXCEPT !.canCreate = FALSE]
    /\ UNCHANGED <<file, pc, call, result, kw, cl, pg, hs>>

\* to_postgresql(dbname, ...)
CallToPostgresql(dbname) ==
    /\ ld.pc = "env"
    /\ ld' = [to_postgresql(ld, dbname) EXCEPT !.dbname = dbname]
    /\ UNCHANGED <<file, pc, call, result, kw, cl, pg, hs>>

NextLoad ==
    \/ \E keys \in LdDsns : LdSetDsn(keys)
    \/ LdServerDown
    \/ LdNoRole
    \/ LdOtherLanguage
    \/ \E db \in LdDbs : LdNoDatabase(db)
    \/ \E db \in LdTargets : LdDeny(db)
    \/ LdNoCreateDb
    \/ \E dbname \in LdTargets : CallToPostgresql(dbname)

SpecLoad == Init /\ [][NextLoad]_vars

(* ------------------------------------------------------------------ C20 *)

\* the positions of the log with an event ev for the database of the call
LogAt(ev) ==
    {i \in 1..Len(ld.log) : ld.log[i] = Event(ev, ld.dbname)}

\* some event ev of the log, for any database
Did(ev) == \E i \in 1..Len(ld.log) : ld.log[i].ev = ev

HsAddRow(row) ==
    /\ hs.pc = "filling"
    /\ Len(hs.rows) < MaxRows
    /\ hs' = [hs EXCEPT !.rows = Append(hs.rows, row)]
    /\ UNCHANGED <<file, pc, call, result, kw, cl, pg, ld>>

\* compute_row_hash(df, target_cols, hash_algorithm=...) on a DataFrame with
\* at least one row
CallComputeRowHash(target_cols, hash_algorithm) ==
    /\ hs.pc = "filling"
    /\ hs.rows # <<>>
    /\ hs' = [compute_row_hash(hs, target_cols, hash_algorithm)
                 EXCEPT !.target_cols = target_cols]
    /\ UNCHANGED <<file, pc, call, result, kw, cl, pg, ld>>

NextHash ==
    \/ \E row \in Cells \X Cells : HsAddRow(row)
    \/ \E target_cols \in TargetCols, hash_algorithm \in Algorithms :
           CallComputeRowHash(target_cols, hash_algorithm)

SpecHash == Init /\ [][NextHash]_vars

(* ------------------------------------------------------------------ C21 *)

\* the target-column values of row i
TargetValues(i) ==
    [k \in 1..Len(hs.target_cols) |-> Cell(hs.rows[i], hs.target_cols[k])]

\* C21 as stated: after compute_row_hash, two rows whose target-column values
\* differ, a missing value against a present one included, have different
\* joined strings as hash input.
C21_JoinUnambiguous ==
    (hs.pc = "done" /\ hs.kind = "return") =>
        \A i \in 1..Len(hs.rows), j \in 1..Len(hs.rows) :
            TargetValues(i) # TargetValues(j)
                => hs.hash[i].input # hs.hash[j].input

====
